---- MODULE Spec2Model ----
(***************************************************************************)
(* Model of createXLSXFromDir (the directory-to-XLSX packer): one build    *)
(* over a small file system, step by step at the granularity of its I/O    *)
(* calls, with every I/O call free to fail.                                *)
(***************************************************************************)
EXTENDS Integers, Sequences, FiniteSets, TLC

\* Source file contents are abstract byte strings 0..MaxContent; 0 is the
\* empty byte string.
MaxContent == 2

\* The bytes of the archive under construction once some of it reached the
\* disk: different from every source content.
ArchiveData == MaxContent + 1

---------------------------------------------------------------------------
\* Paths are sequences of components.

dirPath == <<"in">>

ContentTypesName == "[Content_Types].xml"

Join(dir, name) == dir \o <<name>>

contentTypesPath == Join(dirPath, ContentTypesName)

mimetypePath == Join(dirPath, "mimetype")

subPath == Join(dirPath, "sub")

sheetPath == Join(subPath, "sheet.xml")

subMimetypePath == Join(subPath, "mimetype")

inTreeOutPath == Join(dirPath, "out.xlsx")

outsideOutPath == <<"out.xlsx">>

TreePaths ==
  {contentTypesPath, mimetypePath, subPath, sheetPath, subMimetypePath,
   inTreeOutPath}

AllPaths == {dirPath, outsideOutPath} \cup TreePaths

Base(path) == path[Len(path)]

Parent(path) == SubSeq(path, 1, Len(path) - 1)

\* filepath.Rel(dirPath, path) for a path below dirPath: the components after it.
Rel(base, path) == SubSeq(path, Len(base) + 1, Len(path))

\* filepath.ToSlash of the joined components: one string, "/" between them.
RECURSIVE ToSlash(_)
ToSlash(comps) ==
  IF Len(comps) = 0 THEN "."
  ELSE IF Len(comps) = 1 THEN comps[1]
  ELSE comps[1] \o "/" \o ToSlash(Tail(comps))

\* The names of the model in byte order, the order sort.Strings gives them.
SortedNames == <<ContentTypesName, "mimetype", "out.xlsx", "sheet.xml", "sub">>

---------------------------------------------------------------------------
\* File system nodes.

NoNode == [kind |-> "none", data |-> 0]

FileNode(d) == [kind |-> "file", data |-> d]

DirNode == [kind |-> "dir", data |-> 0]

MkFs(root, ct, mime, sub, sheet, subMime, ext) ==
  [p \in AllPaths |->
     IF p = dirPath THEN root
     ELSE IF p = outsideOutPath THEN ext
     ELSE IF root.kind # "dir" THEN NoNode
     ELSE IF p = contentTypesPath THEN ct
     ELSE IF p = mimetypePath THEN mime
     ELSE IF p = subPath THEN sub
     ELSE IF p = inTreeOutPath THEN NoNode
     ELSE IF sub.kind # "dir" THEN NoNode
     ELSE IF p = sheetPath THEN sheet
     ELSE subMime]

\* The part of a file system below dirPath.
Tree(f) == [p \in TreePaths |-> f[p]]

RegularFiles(f) == {p \in TreePaths : f[p].kind = "file"}

---------------------------------------------------------------------------
VARIABLES
  fs,            \* the file system now
  fs0,           \* the file system when this build was invoked
  xlsxPath,      \* the output path
  pc,            \* position in createXLSXFromDir
  result,        \* "none" | "ok" | "err" | "panic"
  retval,        \* the value being returned while the deferred calls run
  errKind,       \* which error is returned
  entries,       \* the archive: sequence of entries, in creation order
  xlsxFile,      \* "unopened" | "open" | "closed"
  zipWriter,     \* "none" | "open" | "closed"
  defers,        \* stack of deferred calls, top first
  closeLog,      \* sequence of Close calls made
  handles,       \* source files open for reading
  todo,          \* paths filepath.Walk has still to visit, next first
  cur,           \* the path the walk callback is working on
  seen,          \* paths the walk callback was called with
  warnings,      \* warnings printed
  success,       \* the success message was printed
  failSeen,      \* an I/O call of this build has failed
  wroteAfterFail,\* an entry was created or filled after a failure
  dirStat,       \* what os.Stat(dirPath) reported
  mimeStat,      \* what os.Stat(mimetypePath) reported
  prev           \* summary of the previous build

vars == <<fs, fs0, xlsxPath, pc, result, retval, errKind, entries, xlsxFile,
          zipWriter, defers, closeLog, handles, todo, cur, seen, warnings,
          success, failSeen, wroteAfterFail, dirStat, mimeStat, prev>>

NoPrev == [result |-> "none", tree |-> Tree([p \in AllPaths |-> NoNode]),
           listing |-> <<>>]

Fresh ==
  /\ pc = "statDir"
  /\ result = "none"
  /\ retval = "none"
  /\ errKind = "none"
  /\ entries = <<>>
  /\ xlsxFile = "unopened"
  /\ zipWriter = "none"
  /\ defers = <<>>
  /\ closeLog = <<>>
  /\ handles = {}
  /\ todo = <<>>
  /\ cur = <<>>
  /\ seen = {}
  /\ warnings = {}
  /\ success = FALSE
  /\ failSeen = FALSE
  /\ wroteAfterFail = FALSE
  /\ dirStat = "unset"
  /\ mimeStat = "unset"

Init ==
  /\ \E root \in {NoNode, FileNode(1), DirNode},
        ct \in {NoNode, FileNode(1)},
        mime \in {NoNode, DirNode} \cup {FileNode(d) : d \in 0..MaxContent},
        sub \in {NoNode, DirNode},
        sheet \in {NoNode} \cup {FileNode(d) : d \in 1..MaxContent},
        subMime \in {NoNode, FileNode(1)},
        ext \in {NoNode, FileNode(1)} :
       fs = MkFs(root, ct, mime, sub, sheet, subMime, ext)
  /\ fs0 = fs
  /\ xlsxPath \in AllPaths
  \* a file at the outside path matters only when it is the output path
  /\ xlsxPath = outsideOutPath \/ fs[outsideOutPath] = NoNode
  /\ prev = NoPrev
  /\ Fresh

---------------------------------------------------------------------------
\* Outcomes of the I/O calls.

\* os.Stat / os.Lstat: "none" is the not-exist error, "error" any other error.
Stat(f, path, fault) == IF fault THEN "error" ELSE f[path].kind

IsNotExist(r) == r = "none"

\* The two checks on the result of os.Stat(dirPath). After an error other
\* than not-exist dirInfo is nil and dirInfo.IsDir() panics.
DirCheckNoTypeTest(r) ==
  IF IsNotExist(r) THEN "notfound"
  ELSE IF r = "error" THEN "panic"
  ELSE "ok"

DirCheck(r) ==
  IF IsNotExist(r) THEN "notfound"
  ELSE IF r = "error" THEN "panic"
  ELSE IF r # "dir" THEN "notdir"
  ELSE "ok"

\* os.Create cannot succeed on a directory or below a missing directory.
CanCreate(f, path) ==
  /\ f[path].kind # "dir"
  /\ Len(path) > 1 => f[Parent(path)].kind = "dir"

\* The mimetype branch is taken unless the stat error is not-exist.
TakesMimetypeBranch(r) == ~IsNotExist(r)

\* The walk callback skips every file whose base name is "mimetype".
SkippedByCallback(path) == Base(path) = "mimetype"

\* defer: the call goes on top of the stack and the stack runs top first.
PushDeferFifo(stack, call) == stack \o <<call>>

PushDefer(stack, call) == <<call>> \o stack

\* readDirNames: the names present in the directory now, sorted.
RECURSIVE NamesFrom(_, _, _)
NamesFrom(f, dir, i) ==
  IF i > Len(SortedNames) THEN <<>>
  ELSE (IF /\ Join(dir, SortedNames[i]) \in AllPaths
           /\ f[Join(dir, SortedNames[i])].kind # "none"
        THEN <<Join(dir, SortedNames[i])>>
        ELSE <<>>) \o NamesFrom(f, dir, i + 1)

RECURSIVE Reverse(_)
Reverse(s) == IF s = <<>> THEN <<>> ELSE Reverse(Tail(s)) \o <<Head(s)>>

\* The names as the directory happens to hold them, not sorted: the order
\* differs from one listing of the tree to the next.
ReadDirNamesUnsorted(f, dir) ==
  IF prev.result = "none" THEN NamesFrom(f, dir, 1)
  ELSE Reverse(NamesFrom(f, dir, 1))

ReadDirNames(f, dir) == NamesFrom(f, dir, 1)

\* The walk callback's deferred fileToZip.Close() when the callback returns.
CallbackReturn(open, path) == open \ {path}

---------------------------------------------------------------------------
\* Shared pieces of the actions.

\* return of an error: the value is set, then the deferred calls run.
Abort(kind) ==
  /\ retval' = "err"
  /\ errKind' = kind
  /\ failSeen' = TRUE
  /\ pc' = "return"

\* Bytes written to the archive writer go through a buffer; whether they
\* reach the disk before Close depends on sizes the model does not track.
MayFlush(f) ==
  {f, [f EXCEPT ![xlsxPath] = FileNode(ArchiveData)]}

NewEntry(name, method) ==
  [name |-> name, method |-> method, data |-> 0, copied |-> FALSE]

FillLast(es, d) ==
  [es EXCEPT ![Len(es)] = [@ EXCEPT !.data = d, !.copied = TRUE]]

---------------------------------------------------------------------------
\* createXLSXFromDir, one action per step.

\* os.Stat(dirPath) and the two precondition checks.
StatDir ==
  /\ pc = "statDir"
  /\ \E fault \in BOOLEAN :
       LET c == DirCheck(Stat(fs, dirPath, fault)) IN
       /\ dirStat' = Stat(fs, dirPath, fault)
       /\ failSeen' = (Stat(fs, dirPath, fault) \in {"none", "error"})
       /\ IF c = "ok"
          THEN /\ pc' = "statCT"
               /\ UNCHANGED <<result, errKind>>
          ELSE /\ pc' = "done"
               /\ result' = IF c = "panic" THEN "panic" ELSE "err"
               /\ errKind' = c
  /\ UNCHANGED <<fs, fs0, xlsxPath, retval, entries, xlsxFile, zipWriter,
                 defers, closeLog, handles, todo, cur, seen, warnings,
                 success, wroteAfterFail, mimeStat,
                 prev>>

\* The advisory check for [Content_Types].xml: a warning when it does not exist.
StatContentTypes ==
  /\ pc = "statCT"
  /\ \E fault \in BOOLEAN :
       warnings' = IF IsNotExist(Stat(fs, contentTypesPath, fault))
                   THEN warnings \cup {"content-types"}
                   ELSE warnings
  /\ pc' = "create"
  /\ UNCHANGED <<fs, fs0, xlsxPath, result, retval, errKind, entries,
                 xlsxFile, zipWriter, defers, closeLog, handles, todo, cur,
                 seen, success, failSeen, wroteAfterFail, dirStat, mimeStat,
                 prev>>

\* os.Create(xlsxPath), defer xlsxFile.Close(), zip.NewWriter, defer
\* zipWriter.Close().
CreateOutput ==
  /\ pc = "create"
  /\ \E fault \in BOOLEAN :
       IF fault \/ ~CanCreate(fs, xlsxPath)
       THEN /\ pc' = "done"
            /\ result' = "err"
            /\ errKind' = "create"
            /\ failSeen' = TRUE
            /\ UNCHANGED <<fs, xlsxFile, zipWriter, defers>>
       ELSE /\ fs' = [fs EXCEPT ![xlsxPath] = FileNode(0)]
            /\ xlsxFile' = "open"
            /\ zipWriter' = "open"
            /\ defers' = PushDefer(PushDefer(defers, "xlsxFile.Close"),
                                   "zipWriter.Close")
            /\ pc' = "statMime"
            /\ UNCHANGED <<result, errKind, failSeen>>
  /\ UNCHANGED <<fs0, xlsxPath, retval, entries, closeLog, handles, todo,
                 cur, seen, warnings, success, wroteAfterFail, dirStat, mimeStat,
                 prev>>

\* os.Stat(mimetypePath): the branch is chosen by IsNotExist alone.
StatMimetype ==
  /\ pc = "statMime"
  /\ \E fault \in BOOLEAN :
       LET r == Stat(fs, mimetypePath, fault) IN
       /\ mimeStat' = r
       /\ failSeen' = (failSeen \/ fault)
       /\ IF TakesMimetypeBranch(r)
          THEN /\ pc' = "mimeHeader"
               /\ UNCHANGED warnings
          ELSE /\ pc' = "walk"
               /\ warnings' = warnings \cup {"mimetype"}
  /\ UNCHANGED <<fs, fs0, xlsxPath, result, retval, errKind, entries,
                 xlsxFile, zipWriter, defers, closeLog, handles, todo, cur,
                 seen, success, wroteAfterFail, dirStat,
                 prev>>

\* zipWriter.CreateHeader({Name: "mimetype", Method: zip.Store}).
MimetypeHeader ==
  /\ pc = "mimeHeader"
  /\ \E fault \in BOOLEAN :
       IF fault
       THEN /\ Abort("mimetype-header")
            /\ UNCHANGED <<entries, wroteAfterFail>>
       ELSE /\ entries' = Append(entries, NewEntry("mimetype", "Store"))
            /\ wroteAfterFail' = (wroteAfterFail \/ failSeen)
            /\ pc' = "mimeOpen"
            /\ UNCHANGED <<retval, errKind, failSeen>>
  /\ UNCHANGED <<fs, fs0, xlsxPath, result, xlsxFile, zipWriter, defers,
                 closeLog, handles, todo, cur, seen, warnings, success, dirStat, mimeStat,
                 prev>>

\* os.Open(mimetypePath) and defer mimetypeFile.Close().
MimetypeOpen ==
  /\ pc = "mimeOpen"
  /\ \E fault \in BOOLEAN :
       IF fault \/ fs[mimetypePath].kind = "none"
       THEN /\ Abort("mimetype-open")
            /\ UNCHANGED <<handles, defers>>
       ELSE /\ handles' = handles \cup {mimetypePath}
            /\ defers' = PushDefer(defers, "mimetypeFile.Close")
            /\ pc' = "mimeCopy"
            /\ UNCHANGED <<retval, errKind, failSeen>>
  /\ UNCHANGED <<fs, fs0, xlsxPath, result, entries, xlsxFile, zipWriter,
                 closeLog, todo, cur, seen, warnings, success,
                 wroteAfterFail, dirStat, mimeStat,
                 prev>>

\* io.Copy(writer, mimetypeFile): reading a directory fails.
MimetypeCopy ==
  /\ pc = "mimeCopy"
  /\ \E fault \in BOOLEAN :
       IF fault \/ fs[mimetypePath].kind # "file"
       THEN /\ Abort("mimetype-copy")
            /\ UNCHANGED <<entries, fs, wroteAfterFail>>
       ELSE /\ entries' = FillLast(entries, fs[mimetypePath].data)
            /\ fs' \in MayFlush(fs)
            /\ wroteAfterFail' = (wroteAfterFail \/ failSeen)
            /\ pc' = "walk"
            /\ UNCHANGED <<retval, errKind, failSeen>>
  /\ UNCHANGED <<fs0, xlsxPath, result, xlsxFile, zipWriter, defers,
                 closeLog, handles, todo, cur, seen, warnings, success, dirStat, mimeStat,
                 prev>>


\* filepath.Walk(dirPath, ...): os.Lstat of the root; on an error the callback
\* gets it and returns it.
WalkRoot ==
  /\ pc = "walk"
  /\ \E fault \in BOOLEAN :
       IF fault
       THEN /\ Abort("walk")
            /\ seen' = seen \cup {dirPath}
            /\ UNCHANGED todo
       ELSE /\ todo' = <<dirPath>>
            /\ pc' = "visit"
            /\ UNCHANGED <<retval, errKind, failSeen, seen>>
  /\ UNCHANGED <<fs, fs0, xlsxPath, result, entries, xlsxFile, zipWriter,
                 defers, closeLog, handles, cur, warnings, success,
                 wroteAfterFail, dirStat, mimeStat,
                 prev>>

\* The walk reaches the next path: lstat (done already for the root) and, for
\* a directory, readDirNames, either of which may fail; then the callback up
\* to its three early returns.
WalkVisit ==
  /\ pc = "visit"
  /\ todo # <<>>
  /\ LET path == Head(todo) IN
     /\ seen' = seen \cup {path}
     /\ \E fault \in BOOLEAN :
          IF fault
          THEN /\ Abort("walk")
               /\ UNCHANGED <<todo, cur>>
          ELSE /\ IF fs[path].kind = "dir"
                  THEN /\ todo' = ReadDirNames(fs, path) \o Tail(todo)
                       /\ UNCHANGED <<cur, pc>>
                  ELSE IF SkippedByCallback(path)
                  THEN /\ todo' = Tail(todo)
                       /\ UNCHANGED <<cur, pc>>
                  ELSE /\ todo' = Tail(todo)
                       /\ cur' = path
                       /\ pc' = "cbCreate"
               /\ UNCHANGED <<retval, errKind, failSeen>>
  /\ UNCHANGED <<fs, fs0, xlsxPath, result, entries, xlsxFile, zipWriter,
                 defers, closeLog, handles, warnings, success,
                 wroteAfterFail, dirStat, mimeStat,
                 prev>>

\* zipWriter.Create(relPath) with relPath = ToSlash(Rel(dirPath, path)).
CallbackCreate ==
  /\ pc = "cbCreate"
  /\ \E fault \in BOOLEAN :
       IF fault
       THEN /\ Abort("walk")
            /\ UNCHANGED <<entries, fs, wroteAfterFail>>
       ELSE /\ entries' = Append(entries,
                            NewEntry(ToSlash(Rel(dirPath, cur)), "Deflate"))
            /\ fs' \in MayFlush(fs)
            /\ wroteAfterFail' = (wroteAfterFail \/ failSeen)
            /\ pc' = "cbOpen"
            /\ UNCHANGED <<retval, errKind, failSeen>>
  /\ UNCHANGED <<fs0, xlsxPath, result, xlsxFile, zipWriter, defers,
                 closeLog, handles, todo, cur, seen, warnings, success, dirStat, mimeStat,
                 prev>>

\* os.Open(path) and defer fileToZip.Close().
CallbackOpen ==
  /\ pc = "cbOpen"
  /\ \E fault \in BOOLEAN :
       IF fault
       THEN /\ Abort("walk")
            /\ UNCHANGED handles
       ELSE /\ handles' = handles \cup {cur}
            /\ pc' = "cbCopy"
            /\ UNCHANGED <<retval, errKind, failSeen>>
  /\ UNCHANGED <<fs, fs0, xlsxPath, result, entries, xlsxFile, zipWriter,
                 defers, closeLog, todo, cur, seen, warnings, success,
                 wroteAfterFail, dirStat, mimeStat,
                 prev>>

\* io.Copy(writer, fileToZip), then the callback returns and its deferred
\* Close runs.
CallbackCopy ==
  /\ pc = "cbCopy"
  /\ handles' = CallbackReturn(handles, cur)
  /\ \E fault \in BOOLEAN :
       IF fault
       THEN /\ Abort("walk")
            /\ UNCHANGED <<entries, fs, wroteAfterFail>>
       ELSE /\ entries' = FillLast(entries, fs[cur].data)
            /\ fs' \in MayFlush(fs)
            /\ wroteAfterFail' = (wroteAfterFail \/ failSeen)
            /\ pc' = "visit"
            /\ UNCHANGED <<retval, errKind, failSeen>>
  /\ UNCHANGED <<fs0, xlsxPath, result, xlsxFile, zipWriter, defers,
                 closeLog, todo, cur, seen, warnings, success, dirStat, mimeStat,
                 prev>>

\* filepath.Walk returned nil: the success message and return nil.
WalkDone ==
  /\ pc = "visit"
  /\ todo = <<>>
  /\ success' = TRUE
  /\ retval' = "ok"
  /\ pc' = "return"
  /\ UNCHANGED <<fs, fs0, xlsxPath, result, errKind, entries, xlsxFile,
                 zipWriter, defers, closeLog, handles, todo, cur, seen,
                 warnings, failSeen, wroteAfterFail, dirStat, mimeStat,
                 prev>>

\* One deferred call runs: the top of the stack. zipWriter.Close flushes the
\* buffer and writes the central directory.
RunDeferred ==
  /\ pc = "return"
  /\ defers # <<>>
  /\ LET call == Head(defers) IN
     /\ defers' = Tail(defers)
     /\ closeLog' = Append(closeLog, call)
     /\ handles' = IF call = "mimetypeFile.Close"
                   THEN handles \ {mimetypePath} ELSE handles
     /\ zipWriter' = IF call = "zipWriter.Close" THEN "closed" ELSE zipWriter
     /\ xlsxFile' = IF call = "xlsxFile.Close" THEN "closed" ELSE xlsxFile
     /\ fs' = IF call = "zipWriter.Close" /\ xlsxFile = "open"
              THEN [fs EXCEPT ![xlsxPath] = FileNode(ArchiveData)]
              ELSE fs
  /\ UNCHANGED <<fs0, xlsxPath, pc, result, retval, errKind, entries, todo,
                 cur, seen, warnings, success, failSeen, wroteAfterFail,
                 dirStat, mimeStat,
                 prev>>

\* createXLSXFromDir has returned.
Return ==
  /\ pc = "return"
  /\ defers = <<>>
  /\ pc' = "done"
  /\ result' = retval
  /\ UNCHANGED <<fs, fs0, xlsxPath, retval, errKind, entries, xlsxFile,
                 zipWriter, defers, closeLog, handles, todo, cur, seen,
                 warnings, success, failSeen, wroteAfterFail, dirStat, mimeStat,
                 prev>>

\* The names and methods of the archive's entries, in order.
Listing(es) == [i \in 1..Len(es) |-> <<es[i].name, es[i].method>>]

\* The tool is run again, with the same arguments, on the file system as the
\* last build left it.
Rebuild ==
  /\ pc = "done"
  /\ prev' = [result |-> result, tree |-> Tree(fs0),
              listing |-> Listing(entries)]
  /\ fs0' = fs
  /\ pc' = "statDir"
  /\ result' = "none"
  /\ retval' = "none"
  /\ errKind' = "none"
  /\ entries' = <<>>
  /\ xlsxFile' = "unopened"
  /\ zipWriter' = "none"
  /\ defers' = <<>>
  /\ closeLog' = <<>>
  /\ handles' = {}
  /\ todo' = <<>>
  /\ cur' = <<>>
  /\ seen' = {}
  /\ warnings' = {}
  /\ success' = FALSE
  /\ failSeen' = FALSE
  /\ wroteAfterFail' = FALSE
  /\ dirStat' = "unset"
  /\ mimeStat' = "unset"
  /\ UNCHANGED <<fs, xlsxPath>>

Next ==
  \/ StatDir
  \/ StatContentTypes
  \/ CreateOutput
  \/ StatMimetype
  \/ MimetypeHeader
  \/ MimetypeOpen
  \/ MimetypeCopy
  \/ WalkRoot
  \/ WalkVisit
  \/ CallbackCreate
  \/ CallbackOpen
  \/ CallbackCopy
  \/ WalkDone
  \/ RunDeferred
  \/ Return
  \/ Rebuild

Spec == Init /\ [][Next]_vars


---------------------------------------------------------------------------
\* Properties.

Succeeded == pc = "done" /\ result = "ok"

EntryName(path) == ToSlash(Rel(dirPath, path))

HasEntry(name, method, data) ==
  \E i \in 1..Len(entries) :
    /\ entries[i].name = name
    /\ entries[i].method = method
    /\ entries[i].copied
    /\ entries[i].data = data

Count(call) == Cardinality({i \in 1..Len(closeLog) : closeLog[i] = call})

Position(call) == CHOOSE i \in 1..Len(closeLog) : closeLog[i] = call

\* C1: after a successful build of a tree that had a "mimetype" file directly
\* under dirPath, entry 1 of the archive is named "mimetype", is Stored and
\* holds the bytes that file had.
C1_MimetypeFirstStored ==
  (Succeeded /\ fs0[mimetypePath].kind = "file") =>
    /\ Len(entries) >= 1
    /\ entries[1].name = "mimetype"
    /\ entries[1].method = "Store"
    /\ entries[1].copied
    /\ entries[1].data = fs0[mimetypePath].data

\* C2: after a successful build every regular file of the tree other than
\* the root-level mimetype file has a Deflated entry named by its relative
\* slash path and holding its bytes.
C2_EveryOtherFileArchived ==
  Succeeded =>
    \A path \in RegularFiles(fs0) \ {mimetypePath} :
      HasEntry(EntryName(path), "Deflate", fs0[path].data)

\* C3: when os.Stat reports that dirPath does not exist the build returns
\* the not-found error, when it reports a regular file the not-a-directory
\* error; in both cases the output is not created or truncated, no entry is
\* written and success is not reported.
C3_PreconditionsBeforeWrite ==
  /\ dirStat = "none" => (pc = "done" /\ result = "err" /\ errKind = "notfound")
  /\ dirStat = "file" => (pc = "done" /\ result = "err" /\ errKind = "notdir")
  /\ dirStat \in {"none", "file"} =>
       /\ fs = fs0
       /\ xlsxFile = "unopened"
       /\ zipWriter = "none"
       /\ entries = <<>>
       /\ ~success

C3_Witness ==
  /\ pc = "done"
  /\ errKind = "notdir"
  /\ xlsxPath = outsideOutPath
  /\ fs[outsideOutPath] = FileNode(1)

\* C4: after a successful build the archive holds exactly one entry per
\* regular file the tree had at invocation, and nothing else.
C4_ExactlyTheRegularFiles ==
  Succeeded =>
    /\ {entries[i].name : i \in 1..Len(entries)} =
         {EntryName(path) : path \in RegularFiles(fs0)}
    /\ Len(entries) = Cardinality(RegularFiles(fs0))

\* C5: a tree without a mimetype file and/or without [Content_Types].xml is
\* still built: when no I/O call fails the build succeeds, and for a tree
\* without a mimetype file the archive has no "mimetype" entry and no Stored
\* entry.
C5_AdvisoryNeverEscalates ==
  /\ (pc = "done" /\ dirStat = "dir" /\ ~failSeen
        /\ (fs0[mimetypePath].kind = "none"
              \/ fs0[contentTypesPath].kind = "none")) => result = "ok"
  /\ (Succeeded /\ fs0[mimetypePath].kind = "none") =>
       \A i \in 1..Len(entries) :
         entries[i].method # "Store" /\ entries[i].name # "mimetype"

\* C6: the build never changes the tree below dirPath, the only file it
\* creates or overwrites is xlsxPath, and the walk only sees paths that
\* existed at invocation.
C6_SourceTreeUntouched ==
  /\ Tree(fs) = Tree(fs0)
  /\ \A path \in AllPaths \ {xlsxPath} : fs[path] = fs0[path]
  /\ \A path \in seen : fs0[path].kind # "none"

\* C7: once an I/O call has failed no entry is created or filled any more,
\* the success message is not printed, the build returns an error, and the
\* output file stays where it is.
C7_FirstFailureAborts ==
  failSeen =>
    /\ ~wroteAfterFail
    /\ ~success
    /\ pc = "done" => result = "err"
    /\ xlsxFile # "unopened" => fs[xlsxPath].kind = "file"

\* C8: when the build has returned after opening the output file, the
\* archive writer was closed exactly once, the output file was closed
\* exactly once, the writer before the file, and no source file is open.
C8_ResourcesReleased ==
  pc = "done" =>
    /\ handles = {}
    /\ xlsxFile # "unopened" =>
         /\ Count("zipWriter.Close") = 1
         /\ Count("xlsxFile.Close") = 1
         /\ Position("zipWriter.Close") < Position("xlsxFile.Close")
         /\ zipWriter = "closed"
         /\ xlsxFile = "closed"

C8_Witness ==
  /\ pc = "done"
  /\ result = "err"
  /\ errKind = "walk"
  /\ "mimetypeFile.Close" \in {closeLog[i] : i \in 1..Len(closeLog)}
  /\ Len(entries) >= 2

C10_MimetypeEntryOnlyForFile ==
  /\ (\E i \in 1..Len(entries) : entries[i].method = "Store") =>
       mimeStat = "file"
  /\ mimeStat \in {"none", "dir", "error"} =>
       /\ "mimetype" \in warnings
       /\ errKind \notin {"mimetype-header", "mimetype-open", "mimetype-copy"}

\* C11: whatever os.Stat(dirPath) reports (a directory, a regular file,
\* not-exist, or another error), the build ends with success or an error
\* value and never with a panic; when the report is not a directory it has
\* returned an error without creating the output file.
C11_InspectionNeverCrashes ==
  /\ result # "panic"
  /\ pc = "done" => result \in {"ok", "err"}
  /\ dirStat \in {"none", "file", "error"} =>
       /\ pc = "done"
       /\ result = "err"
       /\ xlsxFile = "unopened"
       /\ fs = fs0

\* os.Stat(dirPath) failed with an error other than not-exist and the build
\* is over.
C11_Witness ==
  /\ pc = "done"
  /\ dirStat = "error"

====
